---- MODULE Spec2Model ----
(***************************************************************************)
(* Model of the vehicle-search dialogue server: the text normalisation and *)
(* slot extraction of server/message_handler.py, the vocabulary and search *)
(* functions of server/repository.py and the conversation state machine of *)
(* server/conversation.py.                                                 *)
(*                                                                         *)
(* A Python str is a sequence of one-character strings; None is the model  *)
(* value None; a dict is a function whose DOMAIN is its set of keys; a     *)
(* float is the IEEE double [n, k, inf, ulps]: the one nearest to n / 10^k *)
(* moved by ulps doubles (or +inf).                                        *)
(***************************************************************************)
EXTENDS Integers, Sequences, FiniteSets, TLC

VARIABLES
    data,      \* CarRepository.data: the loaded record set, in table order
    state,     \* ConversationManager.state
    filters,   \* ConversationManager.filters
    reply,     \* the dict returned by the last process_message (None before)
    last,      \* what the last step did: operation, input, branch taken
    sfilters,  \* search_cars: the filters argument of the call
    sresult,   \* search_cars: the returned list (None before the call)
    argument,  \* the argument of a call of a MessageHandler function
    returned,  \* what the call returned (<<>> before the call)
    server,    \* Server: position in run, shutdown flag, socket, context
    client,    \* ChatApp: the REQ socket, what was shown, the listening task
    wire       \* the messages in flight between the two sockets

vars == <<data, state, filters, reply, last, sfilters, sresult, argument, returned,
          server, client, wire>>

\* the variables of the dialogue of one session
session == <<data, state, filters, reply, last>>

\* the variables of the calls of pure functions
calls == <<sfilters, sresult, argument, returned>>

\* the variables of the transport
transport == <<server, client, wire>>

\* None is no str, no tuple and no list: a function on {0}, which no sequence
\* is.  It differs from the str of the four characters N, o, n, e, which a
\* marca, a cor or an utterance can be
None == [i \in {0} |-> "None"]

(***************************************************************************)
(* Characters.  CodeOrder lists the characters of the model in increasing  *)
(* Unicode code point, which is the order Python compares str by.          *)
(***************************************************************************)
CodeOrder ==
    << " ", "$", ",", ".",
       "0", "1", "2", "3", "4", "5", "6", "7", "8", "9",
       "A", "B", "C", "D", "E", "F", "G", "H", "I", "J", "K", "L", "M",
       "N", "O", "P", "Q", "R", "S", "T", "U", "V", "W", "X", "Y", "Z",
       "a", "b", "c", "d", "e", "f", "g", "h", "i", "j", "k", "l", "m",
       "n", "o", "p", "q", "r", "s", "t", "u", "v", "w", "x", "y", "z",
       "Á", "É", "á", "ã", "ç", "é", "ë", "í", "€" >>

Chars == {CodeOrder[i] : i \in 1..Len(CodeOrder)}

Ord(c) == CHOOSE i \in 1..Len(CodeOrder) : CodeOrder[i] = c

UpperChars ==
    << "A", "B", "C", "D", "E", "F", "G", "H", "I", "J", "K", "L", "M",
       "N", "O", "P", "Q", "R", "S", "T", "U", "V", "W", "X", "Y", "Z",
       "Á", "É" >>

LowerChars ==
    << "a", "b", "c", "d", "e", "f", "g", "h", "i", "j", "k", "l", "m",
       "n", "o", "p", "q", "r", "s", "t", "u", "v", "w", "x", "y", "z",
       "á", "é" >>

\* str.lower() on one character
LowerChar(c) ==
    IF \E i \in 1..Len(UpperChars) : UpperChars[i] = c
    THEN LowerChars[CHOOSE i \in 1..Len(UpperChars) : UpperChars[i] = c]
    ELSE c

\* unidecode() on one character: its ASCII transliteration, a string
UnidecodeChar(c) ==
    CASE c \in {"Á"} -> <<"A">>
      [] c \in {"É"} -> <<"E">>
      [] c \in {"á", "ã"} -> <<"a">>
      [] c \in {"ç"} -> <<"c">>
      [] c \in {"é", "ë"} -> <<"e">>
      [] c \in {"í"} -> <<"i">>
      [] c \in {"€"} -> <<"E", "U", "R">>
      [] OTHER -> <<c>>

IsSpace(c) == c = " "

IsDigit(c) == c \in {"0", "1", "2", "3", "4", "5", "6", "7", "8", "9"}

DigitVal(c) == Ord(c) - Ord("0")

(***************************************************************************)
(* Strings.                                                                *)
(***************************************************************************)
Lower(s) == [i \in 1..Len(s) |-> LowerChar(s[i])]

RECURSIVE Unidecode(_)
Unidecode(s) ==
    IF s = <<>> THEN <<>> ELSE UnidecodeChar(Head(s)) \o Unidecode(Tail(s))

\* str.strip(): drop the leading and the trailing whitespace
Strip(s) ==
    LET keep == {i \in 1..Len(s) : ~IsSpace(s[i])}
    IN  IF keep = {} THEN <<>>
        ELSE LET lo == CHOOSE i \in keep : \A j \in keep : i <= j
                 hi == CHOOSE i \in keep : \A j \in keep : j <= i
             IN  SubSeq(s, lo, hi)

\* a in b, for str
IsSubstr(a, b) ==
    \E i \in 0..(Len(b) - Len(a)) : SubSeq(b, i + 1, i + Len(a)) = a

\* a < b, for str: lexicographic by code point
StrLess(a, b) ==
    \E i \in 1..(Len(a) + 1) :
        /\ i <= Len(b)
        /\ SubSeq(a, 1, i - 1) = SubSeq(b, 1, i - 1)
        /\ (i = Len(a) + 1 \/ Ord(a[i]) < Ord(b[i]))

\* sorted(S) for a collection of distinct str
RECURSIVE Sorted(_)
Sorted(S) ==
    IF S = {} THEN <<>>
    ELSE LET m == CHOOSE x \in S : \A y \in S : y = x \/ StrLess(x, y)
         IN  <<m>> \o Sorted(S \ {m})

\* Series.unique().tolist(): the distinct values in order of first occurrence
Unique(s) ==
    LET first == {i \in 1..Len(s) : \A j \in 1..(i - 1) : s[j] # s[i]}
        F[k \in 0..Len(s)] ==
            IF k = 0 THEN <<>>
            ELSE IF k \in first THEN Append(F[k - 1], s[k]) ELSE F[k - 1]
    IN  F[Len(s)]

\* seq[:n]
Take(s, n) == SubSeq(s, 1, IF Len(s) < n THEN Len(s) ELSE n)

normalize_text(text) == Unidecode(Strip(Lower(text)))

(***************************************************************************)
(* Floats.  A float is an IEEE double.  Dec(n, k) is the double nearest to *)
(* the decimal n / 10^k, which is what float() gives for the literal;      *)
(* trailing zeros are dropped, so that equal numbers are equal values.     *)
(* The field ulps counts doubles from there: [n, k, ulps |-> 1] is the     *)
(* double right after the one nearest to n / 10^k, as 16100.000000000002   *)
(* is after 16100.0; a product can land on such a neighbour.  Inf is       *)
(* float('inf').                                                           *)
(***************************************************************************)
RECURSIVE Pow10(_)
Pow10(k) == IF k = 0 THEN 1 ELSE 10 * Pow10(k - 1)

RECURSIVE Dec(_, _)
Dec(n, k) ==
    IF k > 0 /\ n % 10 = 0 THEN Dec(n \div 10, k - 1)
    ELSE [n |-> n, k |-> k, inf |-> FALSE, ulps |-> 0]

Inf == [n |-> 0, k |-> 0, inf |-> TRUE, ulps |-> 0]

\* a <= b, for float: two different decimals of a few digits are many doubles
\* apart, so their order decides; on the same decimal the count of doubles does
FloatLeq(a, b) ==
    IF b.inf THEN TRUE
    ELSE IF a.inf THEN FALSE
    ELSE \/ a.n * Pow10(b.k) < b.n * Pow10(a.k)
         \/ a.n * Pow10(b.k) = b.n * Pow10(a.k) /\ a.ulps <= b.ulps

(***************************************************************************)
(* The arithmetic of doubles.  A natural number is the sequence of its     *)
(* digits in base 2^16, the least significant first, the last not 0; a     *)
(* double is [m, e]: the 53 binary digits m, the most significant first    *)
(* and 1, and the exponent e of the value m * 2^e.                         *)
(***************************************************************************)
\* the digits of the integer n
RECURSIVE LimbsOf(_)
LimbsOf(n) == IF n = 0 THEN <<>> ELSE <<n % 65536>> \o LimbsOf(n \div 65536)

\* x * m + carry, for an integer m below 2^14
RECURSIVE MulSmall(_, _, _)
MulSmall(x, m, carry) ==
    IF x = <<>> THEN LimbsOf(carry)
    ELSE <<(x[1] * m + carry) % 65536>>
         \o MulSmall(Tail(x), m, (x[1] * m + carry) \div 65536)

\* the digits of x from the i-th down, divided by the integer d below 2^14,
\* with r carried in from the digits above: q the quotient (with leading
\* zeros, the most significant first), r the remainder
RECURSIVE DivSmallFrom(_, _, _, _)
DivSmallFrom(x, d, i, r) ==
    IF i = 0 THEN [q |-> <<>>, r |-> r]
    ELSE LET Rest(lower) ==
                 [q |-> <<(r * 65536 + x[i]) \div d>> \o lower.q, r |-> lower.r]
         IN  Rest(DivSmallFrom(x, d, i - 1, (r * 65536 + x[i]) % d))

\* the sequence s without its last element, while that is 0
RECURSIVE Trimmed0(_)
Trimmed0(s) ==
    IF s = <<>> \/ s[Len(s)] # 0 THEN s ELSE Trimmed0(SubSeq(s, 1, Len(s) - 1))

\* x \div d and whether the division is exact
DivSmall(x, d) ==
    LET Turned(res) ==
            [q |-> Trimmed0([i \in 1..Len(res.q) |-> res.q[Len(res.q) + 1 - i]]),
             exact |-> res.r = 0]
    IN  Turned(DivSmallFrom(x, d, Len(x), 0))

\* x \div 10^k and whether nothing remained in any of the k divisions
RECURSIVE DivPow10(_, _, _)
DivPow10(x, k, exact) ==
    IF k = 0 THEN [q |-> x, exact |-> exact]
    ELSE LET Again(res) == DivPow10(res.q, k - 1, exact /\ res.exact)
         IN  Again(DivSmall(x, 10))

\* the number of binary digits of the integer n
RECURSIVE BitLen(_)
BitLen(n) == IF n = 0 THEN 0 ELSE 1 + BitLen(n \div 2)

RECURSIVE Pow2(_)
Pow2(k) == IF k = 0 THEN 1 ELSE 2 * Pow2(k - 1)

\* the number of binary digits of x, and its binary digit of weight 2^i
BitLenOf(x) == 16 * (Len(x) - 1) + BitLen(x[Len(x)])

BitOf(x, i) == (x[(i \div 16) + 1] \div Pow2(i % 16)) % 2

\* m + 1 on 53 binary digits: the double [m, e] moved up by one
NextDouble(d) ==
    IF \A j \in 1..53 : d.m[j] = 1
    THEN [m |-> [j \in 1..53 |-> IF j = 1 THEN 1 ELSE 0], e |-> d.e + 1]
    ELSE LET Flip(z) ==
                 [m |-> [j \in 1..53 |-> IF j < z THEN d.m[j]
                                         ELSE IF j = z THEN 1 ELSE 0],
                  e |-> d.e]
         IN  Flip(CHOOSE z \in 1..53 :
                      d.m[z] = 0 /\ \A j \in (z + 1)..53 : d.m[j] = 1)

\* the double nearest to x * 2^e, ties to even, for x of 54 binary digits or
\* more; exact says that nothing was cut off below x
RoundDouble(x, exact, e) ==
    LET Cut(len) ==
            LET down == [m |-> [j \in 1..53 |-> BitOf(x, len - j)],
                         e |-> e + len - 53]
                up == /\ BitOf(x, len - 54) = 1
                      /\ \/ ~exact
                         \/ \E i \in 0..(len - 55) : BitOf(x, i) = 1
                         \/ BitOf(x, len - 53) = 1
            IN  IF up THEN NextDouble(down) ELSE down
    IN  Cut(BitLenOf(x))

\* float of the literal of n / 10^k, n > 0: n * 2^s / 10^k is rounded, with
\* s = 16 * (4 + k), which gives the quotient more than 54 binary digits
ToDouble(n, k) ==
    LET Rounded(res) == RoundDouble(res.q, res.exact, 0 - 16 * (4 + k))
    IN  Rounded(DivPow10([i \in 1..(4 + k) |-> 0] \o LimbsOf(n), k, TRUE))

\* the integer of 16 binary digits or fewer, the most significant first
RECURSIVE BitsValue(_)
BitsValue(b) ==
    IF b = <<>> THEN 0 ELSE 2 * BitsValue(SubSeq(b, 1, Len(b) - 1)) + b[Len(b)]

\* the 53 binary digits m as a natural number
LimbsOfBits(m) ==
    << BitsValue(SubSeq(m, 38, 53)), BitsValue(SubSeq(m, 22, 37)),
       BitsValue(SubSeq(m, 6, 21)), BitsValue(SubSeq(m, 1, 5)) >>

RECURSIVE NextDoubles(_, _)
NextDoubles(d, j) == IF j = 0 THEN d ELSE NextDoubles(NextDouble(d), j - 1)

\* how many doubles b is after a (before a, if negative); the two roundings
\* of a product put it a few doubles from the double nearest to the exact one
UlpsFrom(a, b) ==
    CHOOSE j \in -4..4 :
        IF j >= 0 THEN NextDoubles(a, j) = b ELSE NextDoubles(b, 0 - j) = a

(***************************************************************************)
(* The words of the record sets and of the utterances.                     *)
(***************************************************************************)
Toyota == <<"T", "o", "y", "o", "t", "a">>
Toyo == <<"T", "o", "y", "o">>
Honda == <<"H", "o", "n", "d", "a">>
Fiat == <<"F", "i", "a", "t">>
Ford == <<"F", "o", "r", "d">>
Audi == <<"A", "u", "d", "i">>
BMW == <<"B", "M", "W">>
Kia == <<"K", "i", "a">>
Corolla == <<"C", "o", "r", "o", "l", "l", "a">>
Camry == <<"C", "a", "m", "r", "y">>
Civic == <<"C", "i", "v", "i", "c">>
Uno == <<"U", "n", "o">>
Ka == <<"K", "a">>
Preto == <<"P", "r", "e", "t", "o">>
Branco == <<"B", "r", "a", "n", "c", "o">>
Prata == <<"P", "r", "a", "t", "a">>
Vermelho == <<"V", "e", "r", "m", "e", "l", "h", "o">>
Azul == <<"A", "z", "u", "l">>
Cinza == <<"C", "i", "n", "z", "a">>
Gasolina == <<"G", "a", "s", "o", "l", "i", "n", "a">>
Etanol == <<"E", "t", "a", "n", "o", "l">>
Flex == <<"F", "l", "e", "x">>
Diesel == <<"D", "i", "e", "s", "e", "l">>
Manual == <<"M", "a", "n", "u", "a", "l">>
Automatico == <<"A", "u", "t", "o", "m", "á", "t", "i", "c", "o">>
Citroen == <<"C", "i", "t", "r", "o", "ë", "n">>
Megane == <<"M", "é", "g", "a", "n", "e">>
Salmao == <<"S", "a", "l", "m", "ã", "o">>

\* shared/constants.py: the fixed lists the prompts suggest from
CORES == <<Preto, Branco, Prata, Vermelho, Azul, Cinza>>
COMBUSTIVEIS == <<Gasolina, Etanol, Flex, Diesel>>
TRANSMISSOES == <<Manual, Automatico>>

\* One row of the table 'cars' (models.py, Car), the columns the server reads
Car(id, marca, modelo, preco, cor, combustivel, transmissao) ==
    [id |-> id, marca |-> marca, modelo |-> modelo, preco |-> preco,
     cor |-> cor, combustivel |-> combustivel, transmissao |-> transmissao]

(***************************************************************************)
(* Record sets.  DataBig has NumCars rows: every fifth row is a car of     *)
(* another brand, every seventh a white Toyota Camry, the others are black *)
(* Toyota Corollas whose price grows with the row number.                  *)
(***************************************************************************)
NumCars == 32

OtherBrands == <<Honda, Fiat, Ford, Audi, BMW, Kia>>
OtherModels == <<Civic, Uno, Ka, Civic, Uno, Ka>>

BigCar(i) ==
    IF i % 5 = 0
    THEN LET j == (((i \div 5) - 1) % Len(OtherBrands)) + 1
         IN  Car(i, OtherBrands[j], OtherModels[j], Dec(25000 + 500 * i, 0),
                 Prata, Gasolina, Automatico)
    ELSE IF i % 7 = 0
    THEN Car(i, Toyota, Camry, Dec(3000000 + 100050 * i, 2), Branco, Flex, Automatico)
    ELSE Car(i, Toyota, Corolla, Dec(30000 + 1000 * i, 0), Preto, Flex, Manual)

DataBig == [i \in 1..NumCars |-> BigCar(i)]

DataSmall ==
    << Car(1, Toyota, Corolla, Dec(4500050, 2), Branco, Gasolina, Manual),
       Car(2, Honda, Civic, Dec(60000, 0), Preto, Flex, Automatico),
       Car(3, Toyota, Corolla, Dec(30, 0), Preto, Gasolina, Manual) >>

\* a record set in which one brand name is contained in another
DataShadow ==
    << Car(1, Toyota, Corolla, Dec(50000, 0), Preto, Flex, Manual),
       Car(2, Toyo, Uno, Dec(20000, 0), Preto, Flex, Manual) >>

\* a record set with accented letters in a brand, a model and a colour
DataAccent ==
    << Car(1, Citroen, Megane, Dec(70000, 0), Salmao, Flex, Automatico),
       Car(2, Honda, Civic, Dec(60000, 0), Preto, Gasolina, Manual) >>

DataEmpty == <<>>

Datasets == {DataBig, DataSmall, DataShadow, DataEmpty}

(***************************************************************************)
(* CarRepository                                                           *)
(***************************************************************************)
\* Series.str.contains(pat, case=False) on one field: pat is a regular
\* expression (regex=True is the default) searched in the field with
\* re.IGNORECASE.  Of the characters of Chars, '.' matches any character and
\* '$' matches the empty string at the end of the field; every other one
\* matches itself, letter case ignored.
RECURSIVE MatchHere(_, _, _, _)
MatchHere(pat, k, field, i) ==
    IF k > Len(pat) THEN TRUE
    ELSE IF pat[k] = "$" THEN i = Len(field) + 1 /\ MatchHere(pat, k + 1, field, i)
    ELSE /\ i <= Len(field)
         /\ (pat[k] = "." \/ pat[k] = field[i])
         /\ MatchHere(pat, k + 1, field, i + 1)

\* (mutant) the comparison keeps the letter case
StrContains_cased(field, pat) ==
    \E i \in 1..(Len(field) + 1) : MatchHere(pat, 1, field, i)

StrContains(field, pat) ==
    \E i \in 1..(Len(field) + 1) : MatchHere(Lower(pat), 1, Lower(field), i)

Column(col) == [i \in 1..Len(data) |-> data[i][col]]

brand_exists(brand) ==
    \E i \in 1..Len(data) : StrContains(data[i].marca, brand)

model_exists(model, brand) ==
    \E i \in 1..Len(data) :
        StrContains(data[i].marca, brand) /\ StrContains(data[i].modelo, model)

\* (mutant) the brands in table order: sorted() forgotten
get_unique_brands_unsorted ==
    Unique(Column("marca"))

get_unique_brands ==
    Sorted({data[i].marca : i \in 1..Len(data)})

get_models_for_brand(brand) ==
    Sorted({data[i].modelo : i \in {j \in 1..Len(data) : StrContains(data[j].marca, brand)}})

MaxResults == 20

\* (mutant) no cap on the number of rows
Head_n_nocap(query, n) == query

\* (mutant) DataFrame.tail(n) in place of head(n)
Head_n_tail(query, n) ==
    SubSeq(query, (IF Len(query) < n THEN 0 ELSE Len(query) - n) + 1, Len(query))

\* DataFrame.head(n)
Head_n(query, n) == Take(query, n)

\* query = query[mask] when the key is in the filters; mask is the set of
\* rows that the boolean Series marks True
Narrow(query, present, mask) ==
    IF present THEN SelectSeq(query, LAMBDA r : r \in mask) ELSE query

search_cars(f) ==
    LET Rows == {data[i] : i \in DOMAIN data}
        Has(key) == key \in DOMAIN f
    IN  Head_n(
          Narrow(
            Narrow(
              Narrow(
                Narrow(
                  Narrow(
                    Narrow(data, Has("marca"),
                           {r \in Rows : StrContains(r.marca, f["marca"])}),
                    Has("modelo"),
                    {r \in Rows : StrContains(r.modelo, f["modelo"])}),
                  Has("preco_min") /\ Has("preco_max"),
                  {r \in Rows : /\ FloatLeq(f["preco_min"], r.preco)
                                /\ FloatLeq(r.preco, f["preco_max"])}),
                Has("cor"),
                {r \in Rows : StrContains(r.cor, f["cor"])}),
              Has("combustivel"),
              {r \in Rows : StrContains(r.combustivel, f["combustivel"])}),
            Has("transmissao"),
            {r \in Rows : StrContains(r.transmissao, f["transmissao"])}),
          MaxResults)

(***************************************************************************)
(* MessageHandler.extract_price_range.  The four regular expressions are   *)
(* matched the way re.search matches them: leftmost start, then the first  *)
(* alternative that lets the rest of the pattern match.  A position is the *)
(* index of a character; an end is the index after the last one matched.   *)
(***************************************************************************)
\* s.replace(c, r) for a one-character c
RECURSIVE Replace(_, _, _)
Replace(s, c, r) ==
    IF s = <<>> THEN <<>>
    ELSE (IF Head(s) = c THEN r ELSE <<Head(s)>>) \o Replace(Tail(s), c, r)

\* \s* from position i: the end of the whitespace run
SkipSpaces(t, i) ==
    CHOOSE j \in i..(Len(t) + 1) :
        /\ \A k \in i..(j - 1) : IsSpace(t[k])
        /\ (j = Len(t) + 1 \/ ~IsSpace(t[j]))

\* \d* from position i: the end of the digit run
DigitsEnd(t, i) ==
    CHOOSE j \in i..(Len(t) + 1) :
        /\ \A k \in i..(j - 1) : IsDigit(t[k])
        /\ (j = Len(t) + 1 \/ ~IsDigit(t[j]))

\* the literal lit (in lower case) at position i, re.IGNORECASE
HasAt(t, i, lit) ==
    /\ i >= 1
    /\ i + Len(lit) - 1 <= Len(t)
    /\ Lower(SubSeq(t, i, i + Len(lit) - 1)) = lit

DigitAt(t, i) == i >= 1 /\ i <= Len(t) /\ IsDigit(t[i])

\* (?:R\$\s*)? from position i
SkipCurrency(t, i) ==
    IF HasAt(t, i, <<"r", "$">>) THEN SkipSpaces(t, i + 2) ELSE i

\* [.,]? from position i: its end
SepEnd(t, i) ==
    IF i <= Len(t) /\ t[i] \in {".", ","} THEN i + 1 ELSE i

\* \d+[.,]?\d* from position i, where a digit stands: its end
NumEnd(t, i) == DigitsEnd(t, SepEnd(t, DigitsEnd(t, i)))

\* the least member of a set of numbers
Least(S) == CHOOSE x \in S : \A y \in S : x <= y

\* the end of the first of the literals lits that stands at i, 0 if none does
LitEnd(t, i, lits) ==
    LET End(hit) == IF hit = {} THEN 0 ELSE i + Len(lits[Least(hit)])
    IN  End({n \in 1..Len(lits) : HasAt(t, i, lits[n])})

\* \s*(?:R\$\s*)?(\d+[.,]?\d*) from position i: the group's span, or None
NumberFrom(t, i) ==
    LET Span(a) == IF DigitAt(t, a) THEN <<a, NumEnd(t, a)>> ELSE None
    IN  Span(SkipCurrency(t, SkipSpaces(t, i)))

KwEntre == <<"e", "n", "t", "r", "e">>
KwDe == <<"d", "e">>
KwA == <<"a">>
KwAte == <<"a", "t", "é">>
KwE == <<"e">>
KwMaximo == <<"m", "á", "x", "i", "m", "o">>
KwAcimaDe == <<"a", "c", "i", "m", "a", " ", "d", "e">>
KwMinimo == <<"m", "í", "n", "i", "m", "o">>
KwMil == <<"m", "i", "l">>
KwK == <<"k">>

\* the text of a span
Group(t, g) == SubSeq(t, g[1], g[2] - 1)

\* pattern 1 tried at start position i: the two groups, or None.  After the
\* first number the alternatives of (?:a|até|e) are tried in order, and one
\* is kept only if the second number follows it.
RangeAt(t, i) ==
    LET conn == <<KwA, KwAte, KwE>>
        Second(g1, g2) == <<Group(t, g1), Group(t, g2)>>
        Pick(g1, c, ok) ==
            IF ok = {} THEN None
            ELSE Second(g1, NumberFrom(t, c + Len(conn[Least(ok)])))
        Connect(g1, c) ==
            Pick(g1, c, {n \in 1..Len(conn) :
                            /\ HasAt(t, c, conn[n])
                            /\ NumberFrom(t, c + Len(conn[n])) # None})
        First(g1) == IF g1 = None THEN None ELSE Connect(g1, SkipSpaces(t, g1[2]))
        Keyword(kw) == IF kw = 0 THEN None ELSE First(NumberFrom(t, kw))
    IN  Keyword(LitEnd(t, i, <<KwEntre, KwDe>>))

\* patterns 2 and 3 tried at start position i: the group, or None
BoundAt(t, i, kws) ==
    LET Number(g) == IF g = None THEN None ELSE <<Group(t, g)>>
        Keyword(kw) == IF kw = 0 THEN None ELSE Number(NumberFrom(t, kw))
    IN  Keyword(LitEnd(t, i, kws))

\* pattern 4 tried at start position i: the group (number and suffix), or None
ThousandsAt(t, i) ==
    LET Suffix(a, sfx) == IF sfx = 0 THEN None ELSE <<SubSeq(t, a, sfx - 1)>>
        Number(a) ==
            IF DigitAt(t, a)
            THEN Suffix(a, LitEnd(t, SkipSpaces(t, NumEnd(t, a)), <<KwMil, KwK>>))
            ELSE None
    IN  Number(SkipCurrency(t, i))

\* patterns[p] tried at start position i: match.groups(), or None
PatternAt(t, p, i) ==
    CASE p = 1 -> RangeAt(t, i)
      [] p = 2 -> BoundAt(t, i, <<KwAte, KwMaximo>>)
      [] p = 3 -> BoundAt(t, i, <<KwAcimaDe, KwMinimo>>)
      [] p = 4 -> ThousandsAt(t, i)

\* the first element of a sequence that is not None, None if there is none
FirstFound(s) ==
    LET At(hit) == IF hit = {} THEN None ELSE s[Least(hit)]
    IN  At({i \in 1..Len(s) : s[i] # None})

\* re.search(patterns[p], text, re.IGNORECASE): the groups of the leftmost match
re_search(t, p) == FirstFound([i \in 1..Len(t) |-> PatternAt(t, p, i)])

RECURSIVE DigitsValue(_)
DigitsValue(s) ==
    IF s = <<>> THEN 0
    ELSE 10 * DigitsValue(SubSeq(s, 1, Len(s) - 1)) + DigitVal(s[Len(s)])

\* float(s) raises no ValueError, for a string s of digits, '.' and ','
IsFloatLiteral(s) ==
    /\ \A i \in 1..Len(s) : IsDigit(s[i]) \/ s[i] = "."
    /\ Cardinality({i \in 1..Len(s) : s[i] = "."}) <= 1
    /\ \E i \in 1..Len(s) : IsDigit(s[i])

\* float(s) for such a string
ParseFloat(s) ==
    LET dots == {i \in 1..Len(s) : s[i] = "."}
        digits == SelectSeq(s, IsDigit)
    IN  IF dots = {} THEN Dec(DigitsValue(digits), 0)
        ELSE Dec(DigitsValue(digits), Len(s) - (CHOOSE i \in dots : TRUE))

\* re.sub(r'[^\d.,]', '', s)
KeepNumeric(s) ==
    LET Numeric(c) == IsDigit(c) \/ c \in {".", ","}
    IN  SelectSeq(s, Numeric)

\* value * 1000 (line 135) on doubles: the double of value times 1000,
\* rounded, told as the double nearest to the exact product and the count of
\* doubles from it
Times1000(v) ==
    IF v.n = 0 THEN v
    ELSE LET Product(d) == RoundDouble(MulSmall(LimbsOfBits(d.m), 1000, 0), TRUE, d.e)
             Told(exactly) ==
                 [exactly EXCEPT !.ulps = UlpsFrom(ToDouble(exactly.n, exactly.k),
                                                   Product(ToDouble(v.n, v.k)))]
         IN  Told(Dec(v.n * 1000, v.k))

\* g.replace('.', '').replace(',', '.')
NoThousands(g) == Replace(Replace(g, ".", <<>>), ",", <<".">>)

\* the body of the loop for the match groups g of one pattern: the returned
\* tuple, or None when float() raised and the loop continues
PriceOfMatch(text, g) ==
    LET Range(s1, s2) ==
            IF ~IsFloatLiteral(s1) \/ ~IsFloatLiteral(s2) THEN None
            ELSE <<ParseFloat(s1), ParseFloat(s2)>>
        Bound(value) ==
            IF IsSubstr(KwAte, text) \/ IsSubstr(KwMaximo, text)
            THEN <<Dec(0, 0), value>>
            ELSE <<value, Inf>>
        Scale(value_str, value) ==
            IF IsSubstr(KwMil, value_str) \/ IsSubstr(KwK, value_str)
            THEN Bound(Times1000(value)) ELSE Bound(value)
        Number(value_str, s) ==
            IF ~IsFloatLiteral(s) THEN None ELSE Scale(value_str, ParseFloat(s))
        Single(value_str) ==
            Number(value_str, Replace(KeepNumeric(value_str), ",", <<".">>))
    IN  IF Len(g) = 2
        THEN Range(NoThousands(g[1]), NoThousands(g[2]))
        ELSE Single(Lower(g[1]))

NumPatterns == 4

\* one turn of the loop over the patterns: the returned tuple, or None when
\* the pattern does not match or float() raised
TryPattern(text, p) ==
    LET Matched(m) == IF m = None THEN None ELSE PriceOfMatch(text, m)
    IN  Matched(re_search(text, p))

extract_price_range(text) ==
    FirstFound([p \in 1..NumPatterns |-> TryPattern(text, p)])

(***************************************************************************)
(* MessageHandler: the categorical extractors.  Each returns the first     *)
(* known value, in the order of its list, that the text contains.          *)
(***************************************************************************)
\* not x, for an Optional[str]
Falsy(x) == x = None \/ x = <<>>

\* (mutant) the last value found is returned, the loop has no early return
FirstIn_last(known, keys, normalized_text) ==
    LET At(hit) == IF hit = {} THEN None
                   ELSE known[CHOOSE i \in hit : \A j \in hit : j <= i]
    IN  At({i \in 1..Len(known) : IsSubstr(keys[i], normalized_text)})

\* for v in known: if key(v) in normalized_text: return v; return None
\* (keys[i] is the key of known[i])
FirstIn(known, keys, normalized_text) ==
    LET At(hit) == IF hit = {} THEN None ELSE known[Least(hit)]
    IN  At({i \in 1..Len(known) : IsSubstr(keys[i], normalized_text)})

extract_brand(text) ==
    LET In(known) ==
          FirstIn(known, [i \in DOMAIN known |-> Lower(known[i])],
                  normalize_text(text))
    IN  In(get_unique_brands)

extract_model(text, brand) ==
    LET In(known) ==
          FirstIn(known, [i \in DOMAIN known |-> Lower(known[i])],
                  normalize_text(text))
    IN  IF Falsy(brand) THEN None ELSE In(get_models_for_brand(brand))

extract_color(text) ==
    LET In(known) ==
          FirstIn(known, [i \in DOMAIN known |-> Lower(known[i])],
                  normalize_text(text))
    IN  In(Unique(Column("cor")))

extract_fuel(text) ==
    LET In(known) ==
          FirstIn(known,
                  [i \in DOMAIN known |-> normalize_text(Lower(known[i]))],
                  normalize_text(text))
    IN  In(Unique(Column("combustivel")))

extract_transmission(text) ==
    LET In(known) ==
          FirstIn(known, [i \in DOMAIN known |-> normalize_text(known[i])],
                  normalize_text(text))
    IN  In(Unique(Column("transmissao")))

(***************************************************************************)
(* ConversationManager.  A handler is the outcome of running it in the     *)
(* current state on a text: the new state, the new filters, the returned   *)
(* dict, the branch it took and, if it searched, the filters it searched   *)
(* with and what search_cars returned.  The 'message' of a reply is its    *)
(* text; a formatted message is the tuple of its literal parts and the     *)
(* values formatted between them.                                          *)
(***************************************************************************)
EmptyDict == [k \in {} |-> {}]

\* d[key] = v
Put(d, key, v) == [k \in DOMAIN d \cup {key} |-> IF k = key THEN v ELSE d[k]]

NumBrandSuggestions == 5
NumModelSuggestions == 5
NumColorSuggestions == 5
NumFuelSuggestions == 3

PriceSuggestions ==
    << <<"A", "t", "é", " ", "4", "0", ".", "0", "0", "0">>,
       <<"E", "n", "t", "r", "e", " ", "4", "0", ".", "0", "0", "0", " ", "e", " ",
         "6", "0", ".", "0", "0", "0">>,
       <<"E", "n", "t", "r", "e", " ", "6", "0", ".", "0", "0", "0", " ", "e", " ",
         "8", "0", ".", "0", "0", "0">>,
       <<"A", "c", "i", "m", "a", " ", "d", "e", " ", "8", "0", ".", "0", "0", "0">> >>

Outcome(st, fl, rp, branch) ==
    [state |-> st, filters |-> fl, reply |-> rp, branch |-> branch,
     searched |-> EmptyDict, results |-> <<>>]

_handle_init ==
    Outcome("AWAITING_BRAND", filters,
            [message |-> "Que legal! Vou te ajudar a encontrar o carro ideal. Qual marca você prefere?",
             suggestions |-> Take(get_unique_brands, NumBrandSuggestions)],
            "welcome")

\* (mutant) the normalized text is stored in place of the brand found
_handle_brand_input_text(text) ==
    LET Brand(brand) ==
            IF Falsy(brand) \/ ~brand_exists(brand)
            THEN Outcome(state, filters,
                         [message |-> "Não consegui identificar a marca. Poderia informar qual marca você prefere?",
                          suggestions |-> Take(get_unique_brands, NumBrandSuggestions)],
                         "no_match")
            ELSE Outcome("AWAITING_MODEL", Put(filters, "marca", text),
                         [message |-> <<"Ótima escolha! Temos ótimos modelos da ", brand,
                                       ". Qual você prefere?">>,
                          suggestions |-> Take(get_models_for_brand(brand),
                                               NumModelSuggestions)],
                         "advance")
    IN  Brand(extract_brand(text))

_handle_brand_input(text) ==
    LET Brand(brand) ==
            IF Falsy(brand)
            THEN Outcome(state, filters,
                         [message |-> "Não consegui identificar a marca. Poderia informar qual marca você prefere?",
                          suggestions |-> Take(get_unique_brands, NumBrandSuggestions)],
                         "no_match")
            ELSE IF ~brand_exists(brand)
            THEN Outcome(state, filters,
                         [message |-> <<"Desculpe, não encontrei carros da marca ", brand,
                                       ". Alguma dessas marcas te interessa?">>,
                          suggestions |-> Take(get_unique_brands, NumBrandSuggestions)],
                         "not_found")
            ELSE Outcome("AWAITING_MODEL", Put(filters, "marca", brand),
                         [message |-> <<"Ótima escolha! Temos ótimos modelos da ", brand,
                                       ". Qual você prefere?">>,
                          suggestions |-> Take(get_models_for_brand(brand),
                                               NumModelSuggestions)],
                         "advance")
    IN  Brand(extract_brand(text))

_handle_model_input(text) ==
    LET Model(model) ==
            IF Falsy(model)
            THEN Outcome(state, filters,
                         [message |-> "Não consegui identificar o modelo. Poderia informar qual modelo você deseja?",
                          suggestions |-> Take(get_models_for_brand(filters["marca"]),
                                               NumModelSuggestions)],
                         "no_match")
            ELSE IF ~model_exists(model, filters["marca"])
            THEN Outcome(state, filters,
                         [message |-> <<"Desculpe, não encontrei o modelo ", model, " para ",
                                       filters["marca"],
                                       ". Algum desses te interessa?">>,
                          suggestions |-> Take(get_models_for_brand(filters["marca"]),
                                               NumModelSuggestions)],
                         "not_found")
            ELSE Outcome("AWAITING_PRECO", Put(filters, "modelo", model),
                         [message |-> <<"Excelente escolha! O ", filters["marca"], " ", model,
                                       " é um ótimo carro. Qual faixa de preço você está considerando?">>,
                          suggestions |-> PriceSuggestions],
                         "advance")
    IN  Model(extract_model(text, filters["marca"]))

\* (mutant) the colour slot is skipped
_handle_preco_input_skip(text) ==
    LET Price(price_range) ==
            IF price_range = None
            THEN Outcome(state, filters,
                         [message |-> "Não consegui entender a faixa de preço.Poderia informar novamente? (Ex: 'até 50.000' ou 'entre 30.000 e 60.000')",
                          suggestions |-> PriceSuggestions],
                         "no_match")
            ELSE Outcome("AWAITING_COMBUSTIVEL",
                         Put(Put(filters, "preco_min", price_range[1]),
                             "preco_max", price_range[2]),
                         [message |-> "Ótimo! Agora me diga:\nQual cor você prefere para o seu carro?",
                          suggestions |-> Take(CORES, NumColorSuggestions)],
                         "advance")
    IN  Price(extract_price_range(text))

_handle_preco_input(text) ==
    LET Price(price_range) ==
            IF price_range = None
            THEN Outcome(state, filters,
                         [message |-> "Não consegui entender a faixa de preço.Poderia informar novamente? (Ex: 'até 50.000' ou 'entre 30.000 e 60.000')",
                          suggestions |-> PriceSuggestions],
                         "no_match")
            ELSE Outcome("AWAITING_COR",
                         Put(Put(filters, "preco_min", price_range[1]),
                             "preco_max", price_range[2]),
                         [message |-> "Ótimo! Agora me diga:\nQual cor você prefere para o seu carro?",
                          suggestions |-> Take(CORES, NumColorSuggestions)],
                         "advance")
    IN  Price(extract_price_range(text))

\* (mutant) the re-prompt suggests the fuels in place of the colours
_handle_cor_input_fuels(text) ==
    LET Cor(cor) ==
            IF Falsy(cor)
            THEN Outcome(state, filters,
                         [message |-> "Não consegui identificar a cor. Poderia informar qual cor você prefere?",
                          suggestions |-> Take(COMBUSTIVEIS, NumFuelSuggestions)],
                         "no_match")
            ELSE Outcome("AWAITING_COMBUSTIVEL", Put(filters, "cor", cor),
                         [message |-> <<"Boa escolha! ", cor,
                                       " é uma ótima cor. Qual tipo de combustível você prefere?">>,
                          suggestions |-> Take(COMBUSTIVEIS, NumFuelSuggestions)],
                         "advance")
    IN  Cor(extract_color(text))

_handle_cor_input(text) ==
    LET Cor(cor) ==
            IF Falsy(cor)
            THEN Outcome(state, filters,
                         [message |-> "Não consegui identificar a cor. Poderia informar qual cor você prefere?",
                          suggestions |-> Take(CORES, NumColorSuggestions)],
                         "no_match")
            ELSE Outcome("AWAITING_COMBUSTIVEL", Put(filters, "cor", cor),
                         [message |-> <<"Boa escolha! ", cor,
                                       " é uma ótima cor. Qual tipo de combustível você prefere?">>,
                          suggestions |-> Take(COMBUSTIVEIS, NumFuelSuggestions)],
                         "advance")
    IN  Cor(extract_color(text))

_handle_combustivel_input(text) ==
    LET Combustivel(combustivel) ==
            IF Falsy(combustivel)
            THEN Outcome(state, filters,
                         [message |-> "Não consegui identificar o combustível. Poderia informar qual tipo você prefere?",
                          suggestions |-> Take(COMBUSTIVEIS, NumFuelSuggestions)],
                         "no_match")
            ELSE Outcome("AWAITING_TRANSMISSAO",
                         Put(filters, "combustivel", combustivel),
                         [message |-> "Entendido! Só mais uma informação: Qual tipo de transmissão você deseja?",
                          suggestions |-> TRANSMISSOES],
                         "advance")
    IN  Combustivel(extract_fuel(text))

\* (mutant) a full reset whatever the state
_reset_conversation_state_init(st) == "INIT"

\* the state _reset_conversation leaves when called in state st
_reset_conversation_state(st) ==
    IF st = "AWAITING_TRANSMISSAO" THEN "AWAITING_BRAND" ELSE "INIT"

\* (mutant) the filters survive the reset
_reset_conversation_filters_kept(fl) == fl

\* the filters _reset_conversation leaves, called with the filters fl
_reset_conversation_filters(fl) == EmptyDict

\* (mutant) the test for an empty result is 'results is None'
_search_reply_none(results) ==
    [message |-> <<"Ótimo! Encontrei ", Len(results),
                      " carros que combinam com você:\n">>,
     results |-> results, complete |-> TRUE]

\* the dict _handle_transmissao_input returns after the search
_search_reply(results) ==
    IF results = <<>>
    THEN [message |-> "Que pena. Infelizmente não consegui encontrar nenhum resultado com esses filtros. Você quer tentar novamente com diferentes informações?", reset |-> TRUE]
    ELSE [message |-> <<"Ótimo! Encontrei ", Len(results),
                      " carros que combinam com você:\n">>,
          results |-> results, complete |-> TRUE]

_handle_transmissao_input(text) ==
    LET Answer(searched, results) ==
            [state |-> _reset_conversation_state(state),
             filters |-> _reset_conversation_filters(searched),
             reply |-> _search_reply(results),
             branch |-> "search",
             searched |-> searched, results |-> results]
        Search(searched) == Answer(searched, search_cars(searched))
        Transmissao(transmissao) ==
            IF Falsy(transmissao)
            THEN Outcome(state, filters,
                         [message |-> "Não consegui identificar a transmissão. Poderia informar qual tipo você prefere?",
                          suggestions |-> TRANSMISSOES],
                         "no_match")
            ELSE Search(Put(filters, "transmissao", transmissao))
    IN  Transmissao(extract_transmission(text))

\* the routing of process_message on the normalized text
Route(normalized) ==
    IF state = "INIT" THEN _handle_init
    ELSE IF state = "AWAITING_BRAND" THEN _handle_brand_input(normalized)
    ELSE IF state = "AWAITING_MODEL" THEN _handle_model_input(normalized)
    ELSE IF state = "AWAITING_PRECO" THEN _handle_preco_input(normalized)
    ELSE IF state = "AWAITING_COR" THEN _handle_cor_input(normalized)
    ELSE IF state = "AWAITING_COMBUSTIVEL" THEN _handle_combustivel_input(normalized)
    ELSE IF state = "AWAITING_TRANSMISSAO" THEN _handle_transmissao_input(normalized)
    ELSE Outcome(state, filters, [message |-> "Como posso te ajudar?"], "fallback")

\* the suggestions that came with the prompt of the current state when it
\* was entered from the state before it in the chain; None when the state
\* was entered another way (history, for the properties)
Prompted(out) ==
    IF out.branch \in {"welcome", "advance"} THEN out.reply.suggestions
    ELSE IF out.branch = "search" THEN None
    ELSE last.prompted

\* what the step before this one was: a search that found records, a search
\* that found none, or anything else (history, for the properties)
After ==
    IF last.branch # "search" THEN "other"
    ELSE IF last.results = <<>> THEN "empty" ELSE "found"

process_message(message) ==
    \E out \in {Route(normalize_text(message))} :
        /\ state' = out.state
        /\ filters' = out.filters
        /\ reply' = out.reply
        /\ last' = [op |-> "process_message", message |-> message, from |-> state,
                    before |-> filters, branch |-> out.branch,
                    searched |-> out.searched, results |-> out.results,
                    prompted |-> Prompted(out), after |-> After]

\* (mutant) the reset goes to the member WELCOME of the enumeration
do_reset_welcome ==
    /\ state' = "WELCOME"
    /\ filters' = EmptyDict
    /\ last' = [op |-> "do_reset", message |-> <<>>, from |-> state,
                before |-> filters, branch |-> "reset",
                searched |-> EmptyDict, results |-> <<>>, prompted |-> None,
                after |-> After]
    /\ UNCHANGED reply

\* (mutant) the state is reset and the filters are left as they are
do_reset_state_only ==
    /\ state' = "INIT"
    /\ last' = [op |-> "do_reset", message |-> <<>>, from |-> state,
                before |-> filters, branch |-> "reset",
                searched |-> EmptyDict, results |-> <<>>, prompted |-> None,
                after |-> After]
    /\ UNCHANGED <<filters, reply>>

do_reset ==
    /\ state' = "INIT"
    /\ filters' = EmptyDict
    /\ last' = [op |-> "do_reset", message |-> <<>>, from |-> state,
                before |-> filters, branch |-> "reset",
                searched |-> EmptyDict, results |-> <<>>, prompted |-> None,
                after |-> After]
    /\ UNCHANGED reply

(***************************************************************************)
(* The dialogue: a session over one of the record sets, driven by          *)
(* utterances and reset directives.                                        *)
(***************************************************************************)
UToyota == Toyota
UHonda == <<" ", " ", "H", "O", "N", "D", "A", " ">>
UOla == <<"O", "l", "á">>
UCorolla == <<"q", "u", "e", "r", "o", " ", "c", "o", "r", "o", "l", "l", "a">>
UCivic == Civic
UAcima == <<"A", "c", "i", "m", "a", " ", "d", "e", " ", "3", "0">>
UEntre == <<"E", "n", "t", "r", "e", " ", "3", "1", ".", "0", "0", "0", " ", "e", " ",
            "4", "0", ".", "0", "0", "0">>
UEntreLow == <<"e", "n", "t", "r", "e", " ", "1", " ", "e", " ", "2">>
UEntreInverted == <<"e", "n", "t", "r", "e", " ", "2", " ", "e", " ", "1">>
UAte == PriceSuggestions[1]
UPreto == Preto
UBranco == <<"b", "r", "a", "n", "c", "o">>
UFlex == Flex
UGasolina == Gasolina
UManual == Manual
UAutomatico == Automatico

Utterances ==
    { UToyota, UHonda, UOla, UCorolla, UCivic, UAcima, UEntre, UEntreLow,
      UEntreInverted, UAte,
      UPreto, UBranco, UFlex, UGasolina, UManual, UAutomatico }

\* the transport is not part of the runs that drive the session directly
NoServer == [pc |-> "none"]
NoClient == [socket |-> "none"]
NoWire == [requests |-> <<>>, replies |-> <<>>]

NoStep ==
    [op |-> "none", message |-> <<>>, from |-> "INIT", before |-> EmptyDict,
     branch |-> "none", searched |-> EmptyDict, results |-> <<>>,
     prompted |-> None, after |-> "other"]

Init ==
    /\ data \in Datasets
    /\ state = "INIT"
    /\ filters = EmptyDict
    /\ reply = EmptyDict
    /\ last = NoStep
    /\ sfilters = EmptyDict
    /\ sresult = None
    /\ argument = <<>>
    /\ returned = <<>>
    /\ server = NoServer
    /\ client = NoClient
    /\ wire = NoWire

\* (mutant) search_cars narrows self.data itself, not a copy of it
Utter_in_place ==
    /\ \E message \in Utterances : process_message(message)
    /\ data' = IF last'.branch = "search" THEN last'.results ELSE data
    /\ UNCHANGED <<calls, transport>>

\* the session driven directly: an utterance is processed
Utter ==
    /\ \E message \in Utterances : process_message(message)
    /\ UNCHANGED <<data, calls, transport>>

\* the session driven directly: a reset directive is executed
Reset ==
    /\ do_reset
    /\ UNCHANGED <<data, calls, transport>>

Next == Utter \/ Reset

Spec == Init /\ [][Next]_vars

(***************************************************************************)
(* search_cars as a function: one call on a record set and a filter        *)
(* specification drawn from the options below.  An option is <<>> (the key *)
(* is absent) or <<v>> (the key is present with the value v).              *)
(***************************************************************************)
MarcaOptions == {<<>>, <<Toyota>>, <<Lower(Toyota)>>, <<<<"o">>>>}
ModeloOptions == {<<>>, <<Corolla>>}
PrecoMinOptions == {<<>>, <<Dec(0, 0)>>, <<Dec(35000, 0)>>}
PrecoMaxOptions == {<<>>, <<Inf>>, <<Dec(4500050, 2)>>}
CorOptions == {<<>>, <<Preto>>}
CombustivelOptions == {<<>>, <<Flex>>}
TransmissaoOptions == {<<>>, <<Manual>>}

FilterKeys ==
    <<"marca", "modelo", "preco_min", "preco_max", "cor", "combustivel", "transmissao">>

\* the dict of the options opts, given in the order of FilterKeys
DictOf(opts) ==
    [k \in {FilterKeys[i] : i \in {j \in 1..Len(FilterKeys) : opts[j] # <<>>}} |->
        opts[CHOOSE i \in 1..Len(FilterKeys) : FilterKeys[i] = k][1]]

FilterSpecs ==
    {DictOf(<<ma, mo, lo, hi, co, fu, tr>>) :
        ma \in MarcaOptions, mo \in ModeloOptions, lo \in PrecoMinOptions,
        hi \in PrecoMaxOptions, co \in CorOptions, fu \in CombustivelOptions,
        tr \in TransmissaoOptions}

InitSearch ==
    /\ data \in Datasets
    /\ sfilters \in FilterSpecs
    /\ sresult = None
    /\ state = "INIT"
    /\ filters = EmptyDict
    /\ reply = EmptyDict
    /\ last = NoStep
    /\ argument = <<>>
    /\ returned = <<>>
    /\ server = NoServer
    /\ client = NoClient
    /\ wire = NoWire

Search ==
    /\ sresult = None
    /\ sresult' = search_cars(sfilters)
    /\ UNCHANGED <<session, sfilters, argument, returned, transport>>

NextSearch == Search

SpecSearch == InitSearch /\ [][NextSearch]_vars

(***************************************************************************)
(* search_cars called with any text as the brand: the values above and     *)
(* texts in which '.' or '$' occurs, which str.contains reads as regular   *)
(* expressions.                                                            *)
(***************************************************************************)
MarcaPatterns == MarcaOptions \cup {<< <<".">> >>, << <<"t", ".", "y">> >>, << <<"a", "$">> >>}

FilterSpecsRegex ==
    {DictOf(<<ma, mo, lo, hi, co, fu, tr>>) :
        ma \in MarcaPatterns, mo \in ModeloOptions, lo \in PrecoMinOptions,
        hi \in PrecoMaxOptions, co \in CorOptions, fu \in CombustivelOptions,
        tr \in TransmissaoOptions}

InitSearchRegex ==
    /\ data \in Datasets
    /\ sfilters \in FilterSpecsRegex
    /\ sresult = None
    /\ state = "INIT"
    /\ filters = EmptyDict
    /\ reply = EmptyDict
    /\ last = NoStep
    /\ argument = <<>>
    /\ returned = <<>>
    /\ server = NoServer
    /\ client = NoClient
    /\ wire = NoWire

NextSearchRegex == Search

SpecSearchRegex == InitSearchRegex /\ [][NextSearchRegex]_vars

(***************************************************************************)
(* extract_price_range called once on a price text.  The texts are built   *)
(* from the words of the patterns and from numerals written with '.' as    *)
(* the thousands separator and ',' as the decimal separator.               *)
(***************************************************************************)
N7 == <<"7">>
N10 == <<"1", "0">>
N4990 == <<"4", "9", ",", "9", "0">>
N161 == <<"1", "6", ",", "1">>
N30000 == <<"3", "0", ".", "0", "0", "0">>
N50000 == <<"5", "0", ".", "0", "0", "0">>
N1000000 == <<"1", ".", "0", "0", "0", ".", "0", "0", "0">>

PriceNumerals == {N7, N10, N4990, N161, N30000, N50000, N1000000}

WAte == <<"a", "t", "é", " ">>
WAteUpper == <<"A", "t", "é", " ">>
WMaximo == <<"m", "á", "x", "i", "m", "o", " ">>
WAcimaDe == <<"a", "c", "i", "m", "a", " ", "d", "e", " ">>
WMinimo == <<"m", "í", "n", "i", "m", "o", " ">>
WCurrency == <<"R", "$", " ">>
WEntre == <<"e", "n", "t", "r", "e", " ">>
WDe == <<"d", "e", " ">>
WE == <<" ", "e", " ">>
WA == <<" ", "a", " ">>
WAteBetween == <<" ", "a", "t", "é", " ">>
WMil == <<" ", "m", "i", "l">>
WK == <<"k">>

BoundWords == {WAte, WAteUpper, WMaximo, WAcimaDe, WMinimo, WCurrency, <<>>}
ThousandWords == {<<>>, WMil, WK}
RangeWords == {WEntre, WDe}
BetweenWords == {WE, WA, WAteBetween}

PriceTexts ==
    {w \o n \o th : w \in BoundWords, n \in PriceNumerals, th \in ThousandWords}
    \cup {w \o a \o c \o b :
              w \in RangeWords, a \in PriceNumerals, c \in BetweenWords,
              b \in PriceNumerals}

InitPrice ==
    /\ data = DataEmpty
    /\ argument \in PriceTexts
    /\ returned = <<>>
    /\ sfilters = EmptyDict
    /\ sresult = None
    /\ state = "INIT"
    /\ filters = EmptyDict
    /\ reply = EmptyDict
    /\ last = NoStep
    /\ server = NoServer
    /\ client = NoClient
    /\ wire = NoWire

\* the call returns: returned holds the value, a tuple or None
ExtractPrice ==
    /\ returned = <<>>
    /\ returned' = <<extract_price_range(argument)>>
    /\ UNCHANGED <<session, sfilters, sresult, argument, transport>>

NextPrice == ExtractPrice

SpecPrice == InitPrice /\ [][NextPrice]_vars

(***************************************************************************)
(* normalize_text called on a text, and then on what it returned.          *)
(***************************************************************************)
MaxTextLen == 3

NormalizeAlphabet == {" ", "a", "Á", "ç", "C", "€"}

NormalizeTexts == UNION {[1..n -> NormalizeAlphabet] : n \in 0..MaxTextLen}

InitNormalize ==
    /\ data = DataEmpty
    /\ argument \in NormalizeTexts
    /\ returned = <<>>
    /\ sfilters = EmptyDict
    /\ sresult = None
    /\ state = "INIT"
    /\ filters = EmptyDict
    /\ reply = EmptyDict
    /\ last = NoStep
    /\ server = NoServer
    /\ client = NoClient
    /\ wire = NoWire

\* normalize_text(argument)
NormalizeOnce ==
    /\ returned = <<>>
    /\ returned' = <<normalize_text(argument)>>
    /\ UNCHANGED <<session, sfilters, sresult, argument, transport>>

\* normalize_text(normalize_text(argument))
NormalizeTwice ==
    /\ Len(returned) = 1
    /\ returned' = Append(returned, normalize_text(returned[1]))
    /\ UNCHANGED <<session, sfilters, sresult, argument, transport>>

NextNormalize == NormalizeOnce \/ NormalizeTwice

SpecNormalize == InitNormalize /\ [][NextNormalize]_vars

(***************************************************************************)
(* The extractors called on their own: one of the five extract_* functions *)
(* of MessageHandler is applied to a text over one of the record sets.     *)
(***************************************************************************)
ExtractDatasets == {DataSmall, DataShadow, DataAccent}

ExtractWords ==
    { Toyota, Toyo, Honda, Citroen, Corolla, Civic, Uno, Megane, Preto, Branco,
      Salmao, Flex, Gasolina, Manual, Automatico }

\* a word of the vocabulary, or two of them
ExtractTexts ==
    ExtractWords \cup {a \o <<" ">> \o b : a \in ExtractWords, b \in ExtractWords}

InitExtract ==
    /\ data \in ExtractDatasets
    /\ argument \in ExtractTexts
    /\ returned = <<>>
    /\ sfilters = EmptyDict
    /\ sresult = None
    /\ state = "INIT"
    /\ filters = EmptyDict
    /\ reply = EmptyDict
    /\ last = NoStep
    /\ server = NoServer
    /\ client = NoClient
    /\ wire = NoWire

\* the call returns: returned holds the slot, the brand passed (extract_model
\* only) and the value, a str or None
Extracted(slot, brand, value) ==
    /\ returned = <<>>
    /\ returned' = <<[slot |-> slot, brand |-> brand, value |-> value]>>
    /\ UNCHANGED <<session, sfilters, sresult, argument, transport>>

ExtractBrand == Extracted("marca", <<>>, extract_brand(argument))

\* the brand passed is filters['marca'], a brand of the record set
ExtractModel ==
    \E i \in 1..Len(data) :
        Extracted("modelo", data[i].marca, extract_model(argument, data[i].marca))

ExtractColor == Extracted("cor", <<>>, extract_color(argument))

ExtractFuel == Extracted("combustivel", <<>>, extract_fuel(argument))

ExtractTransmission == Extracted("transmissao", <<>>, extract_transmission(argument))

NextExtract ==
    \/ ExtractBrand
    \/ ExtractModel
    \/ ExtractColor
    \/ ExtractFuel
    \/ ExtractTransmission

SpecExtract == InitExtract /\ [][NextExtract]_vars

(***************************************************************************)
(* The transport: Server.run on its REP socket, one REQ peer (ChatApp, or  *)
(* any other program that speaks the protocol) and the messages in flight. *)
(* A REP socket alternates recv and send, a REQ socket send and recv; a    *)
(* call out of turn raises ZMQError(EFSM).  server.pc is the line run is   *)
(* at: "while" (64), "recv" (67), "route" (70), "send" (76), "again" (80), *)
(* "close" (94), "term" (100), "returned".                                 *)
(***************************************************************************)
\* JSON values of a request, as json.loads types them: a str, or a number
\* given by its literal
JsonStr(s) == [type |-> "str", value |-> s]
JsonNum(literal) == [type |-> "number", value |-> literal]

\* dict.get(key, default)
Get(d, key, default) == IF key \in DOMAIN d THEN d[key] ELSE default

KwReset == <<"r", "e", "s", "e", "t">>

\* {"message": m}, {"action": "reset"}
UtteranceRequest(m) == Put(EmptyDict, "message", m)
ResetRequest == Put(EmptyDict, "action", JsonStr(KwReset))

\* what the user types in the input box
Typed == {UToyota, <<" ">>, <<>>}

\* the requests of a peer other than ChatApp
PeerRequests ==
    {ResetRequest, EmptyDict, UtteranceRequest(JsonStr(UOla)), UtteranceRequest(JsonNum(N7))}

MaxRequests == 3

ServerStarted ==
    [pc |-> "while", shutdown |-> FALSE, request |-> <<>>, replied |-> FALSE,
     socket |-> "receiving", context |-> "open", closes |-> 0, terms |-> 0,
     exit |-> "none", signalled |-> "none"]

\* errors: a send has failed and its error message is shown; late: a reply was
\* rendered after that; response: the reply listen_for_messages has received
\* and not yet rendered
ClientStarted ==
    [socket |-> "ready", listening |-> TRUE, log |-> <<>>, errors |-> 0,
     late |-> FALSE, response |-> <<>>]

InitTransport ==
    /\ data = DataSmall
    /\ state = "INIT"
    /\ filters = EmptyDict
    /\ reply = EmptyDict
    /\ last = NoStep
    /\ sfilters = EmptyDict
    /\ sresult = None
    /\ argument = <<>>
    /\ returned = <<>>
    /\ server = ServerStarted
    /\ client = ClientStarted
    /\ wire = NoWire

\* the requests the peer has put on the wire
Sent == Cardinality({i \in 1..Len(client.log) : client.log[i] = "send"})

\* (mutant) a socket that sends whatever its state, as a DEALER does
send_json_dealer(request) ==
    /\ client' = [client EXCEPT !.socket = "awaiting", !.log = Append(@, "send")]
    /\ wire' = [wire EXCEPT !.requests = Append(@, request)]

\* client_socket.send_json(request) on the REQ socket; raises out of turn
send_json(request) ==
    IF client.socket = "ready"
    THEN /\ client' = [client EXCEPT !.socket = "awaiting", !.log = Append(@, "send")]
         /\ wire' = [wire EXCEPT !.requests = Append(@, request)]
    ELSE /\ client' = [client EXCEPT !.errors = 1]
         /\ wire' = wire

\* ChatApp.send_message(message), called by on_input_submitted and
\* on_button_pressed with the stripped text of the input box
send_message(message) ==
    /\ Sent < MaxRequests
    /\ IF message # <<>>
       THEN send_json(UtteranceRequest(JsonStr(message)))
       ELSE UNCHANGED <<client, wire>>
    /\ UNCHANGED <<session, calls, server>>

Submit == \E typed \in Typed : send_message(Strip(typed))

\* another peer sends a request on its REQ socket
PeerSend ==
    /\ Sent < MaxRequests
    /\ \E request \in PeerRequests : send_json(request)
    /\ UNCHANGED <<session, calls, server>>

\* lines 184-186 of ChatApp.listen_for_messages: the poll reports a reply and
\* recv_json takes it off the socket; the await gives the event loop a turn
\* before the reply is rendered, so a submission can run in between
poll_recv_json ==
    /\ client.listening
    /\ client.response = <<>>
    /\ client.socket = "awaiting"
    /\ wire.replies # <<>>
    /\ client' = [client EXCEPT !.socket = "ready", !.log = Append(@, "recv"),
                                !.response = <<Head(wire.replies)>>]
    /\ wire' = [wire EXCEPT !.replies = Tail(@)]
    /\ UNCHANGED <<session, calls, server>>

\* lines 188-207 of ChatApp.listen_for_messages: the reply received is
\* rendered; response['message'] raises KeyError if the key is missing, the
\* error is shown and the loop is left
display_response ==
    /\ client.response # <<>>
    /\ client' = [client EXCEPT !.response = <<>>,
                                !.listening = "message" \in DOMAIN client.response[1],
                                !.late = @ \/ (client.errors = 1 /\
                                               "message" \in DOMAIN client.response[1])]
    /\ UNCHANGED <<session, calls, server, wire>>

\* a step of ChatApp.listen_for_messages
listen_for_messages ==
    \/ poll_recv_json
    \/ display_response

\* Server.handle_shutdown: the signal handler sets the flag, wherever run is
\* (signalled records where it was)
handle_shutdown ==
    /\ server.pc # "returned"
    /\ ~server.shutdown
    /\ server' = [server EXCEPT !.shutdown = TRUE, !.signalled = server.pc]
    /\ UNCHANGED <<session, calls, client, wire>>

\* line 64: while not self.shutdown
while_not_shutdown ==
    /\ server.pc = "while"
    /\ server' = IF server.shutdown
                 THEN [server EXCEPT !.pc = "close", !.exit = "while"]
                 ELSE [server EXCEPT !.pc = "recv"]
    /\ UNCHANGED <<session, calls, client, wire>>

\* (mutant) a blocking recv_json(): it waits until a request is there
recv_json_blocking ==
    /\ server.pc = "recv"
    /\ server.socket = "receiving"
    /\ wire.requests # <<>>
    /\ server' = [server EXCEPT !.pc = "route", !.request = <<Head(wire.requests)>>,
                                !.replied = FALSE, !.socket = "replying"]
    /\ wire' = [wire EXCEPT !.requests = Tail(@)]
    /\ UNCHANGED <<session, calls, client>>

\* line 67: self.socket.recv_json(flags=zmq.NOBLOCK).  Out of turn it raises
\* ZMQError(EFSM), which only the outer except catches; with no request
\* queued it raises zmq.Again.
recv_json ==
    /\ server.pc = "recv"
    /\ IF server.socket # "receiving"
       THEN /\ server' = [server EXCEPT !.pc = "close", !.exit = "exception"]
            /\ wire' = wire
       ELSE IF wire.requests = <<>>
       THEN /\ server' = [server EXCEPT !.pc = "again"]
            /\ wire' = wire
       ELSE /\ server' = [server EXCEPT !.pc = "route",
                                        !.request = <<Head(wire.requests)>>,
                                        !.replied = FALSE, !.socket = "replying"]
            /\ wire' = [wire EXCEPT !.requests = Tail(@)]
    /\ UNCHANGED <<session, calls, client>>

\* lines 78-82: except zmq.Again
except_again ==
    /\ server.pc = "again"
    /\ server' = IF server.shutdown
                 THEN [server EXCEPT !.pc = "close", !.exit = "break"]
                 ELSE [server EXCEPT !.pc = "while"]
    /\ UNCHANGED <<session, calls, client, wire>>

\* lines 70-75: the reset directive, or process_message on the 'message' of
\* the request; normalize_text raises AttributeError on a message that is not
\* a str, which only the outer except catches
route ==
    /\ server.pc = "route"
    /\ LET request == server.request[1]
           message == Get(request, "message", JsonStr(<<>>))
       IN  IF Get(request, "action", JsonStr(<<>>)) = JsonStr(KwReset)
           THEN /\ do_reset
                /\ server' = [server EXCEPT !.pc = "while"]
           ELSE IF message.type # "str"
           THEN /\ UNCHANGED <<state, filters, reply, last>>
                /\ server' = [server EXCEPT !.pc = "close", !.exit = "exception"]
           ELSE /\ process_message(message.value)
                /\ server' = [server EXCEPT !.pc = "send"]
    /\ UNCHANGED <<data, calls, client, wire>>

\* line 76: self.socket.send_json(response)
send_response ==
    /\ server.pc = "send"
    /\ server' = [server EXCEPT !.pc = "while", !.replied = TRUE,
                                !.socket = "receiving"]
    /\ wire' = [wire EXCEPT !.replies = Append(@, reply)]
    /\ UNCHANGED <<session, calls, client>>

\* lines 92-96 of _cleanup_resources: self.socket.close()
socket_close ==
    /\ server.pc = "close"
    /\ server' = [server EXCEPT !.pc = "term", !.socket = "closed",
                                !.closes = @ + 1]
    /\ UNCHANGED <<session, calls, client, wire>>

\* lines 98-102 of _cleanup_resources: self.context.term(); run returns
context_term ==
    /\ server.pc = "term"
    /\ server' = [server EXCEPT !.pc = "returned", !.context = "terminated",
                                !.terms = @ + 1]
    /\ UNCHANGED <<session, calls, client, wire>>

\* a step of Server.run
run ==
    \/ while_not_shutdown
    \/ recv_json
    \/ except_again
    \/ route
    \/ send_response
    \/ socket_close
    \/ context_term

NextTransport ==
    \/ Submit
    \/ PeerSend
    \/ listen_for_messages
    \/ handle_shutdown
    \/ run

SpecTransport == InitTransport /\ [][NextTransport]_vars

\* weak fairness of route, written out: route can be taken exactly when
\* server.pc = "route"
RouteFair == []<>(server.pc # "route") \/ []<><<route>>_vars

\* the server process keeps running: the step of run that can be taken is
\* taken.  Nothing is assumed of the client, the peer or the signal.
SpecTransportFair ==
    /\ SpecTransport
    /\ WF_vars(while_not_shutdown)
    /\ WF_vars(recv_json)
    /\ WF_vars(except_again)
    /\ RouteFair
    /\ WF_vars(send_response)
    /\ WF_vars(socket_close)
    /\ WF_vars(context_term)

(***************************************************************************)
(* Several clients of one server.  Each ChatApp has its own REQ socket;    *)
(* the REP socket of the server takes the requests of all connected peers  *)
(* in turn and sends each reply back to the peer whose request it answers. *)
(* The server holds the one ConversationManager that Server.__init__       *)
(* creates.  client[c].first holds the state of the session in which the   *)
(* first utterance of c was handled (history, for the properties).         *)
(***************************************************************************)
Clients == {"a", "b"}

ClientUtterances == {UOla, UToyota, UCorolla}

MaxUtterances == 2

InitClients ==
    /\ data = DataSmall
    /\ state = "INIT"
    /\ filters = EmptyDict
    /\ reply = EmptyDict
    /\ last = NoStep
    /\ sfilters = EmptyDict
    /\ sresult = None
    /\ argument = <<>>
    /\ returned = <<>>
    /\ server = ServerStarted
    /\ client = [c \in Clients |-> [socket |-> "none", sent |-> 0, first |-> <<>>]]
    /\ wire = NoWire

\* ChatApp.connect_to_server: the client c creates and connects its socket
Connect(c) ==
    /\ client[c].socket = "none"
    /\ client' = [client EXCEPT ![c].socket = "ready"]
    /\ UNCHANGED <<session, calls, server, wire>>

\* ChatApp.send_message of the client c with a text typed by its user
ClientSend(c) ==
    /\ client[c].socket = "ready"
    /\ client[c].sent < MaxUtterances
    /\ \E message \in ClientUtterances :
           wire' = [wire EXCEPT !.requests =
                        Append(@, [peer |-> c,
                                   body |-> UtteranceRequest(JsonStr(message))])]
    /\ client' = [client EXCEPT ![c].socket = "awaiting", ![c].sent = @ + 1]
    /\ UNCHANGED <<session, calls, server>>

\* line 67 of Server.run with a request queued: recv_json takes the next
\* request off the REP socket.  The socket keeps one queue per connected peer
\* and takes the queues in turn, so the request received is the oldest one
\* of some peer, not necessarily the one sent first
ServeRecv ==
    /\ server.pc = "while"
    /\ \E i \in 1..Len(wire.requests) :
           /\ \A j \in 1..(i - 1) : wire.requests[j].peer # wire.requests[i].peer
           /\ server' = [server EXCEPT !.pc = "route", !.request = <<wire.requests[i]>>,
                                        !.replied = FALSE, !.socket = "replying"]
           /\ wire' = [wire EXCEPT !.requests =
                            SubSeq(@, 1, i - 1) \o SubSeq(@, i + 1, Len(@))]
    /\ UNCHANGED <<session, calls, client>>

\* lines 70-75: the request is no reset directive; its 'message' is handled
\* by self.conversation, the one ConversationManager of the server
ServeRoute ==
    /\ server.pc = "route"
    /\ LET envelope == server.request[1]
       IN  /\ process_message(Get(envelope.body, "message", JsonStr(<<>>)).value)
           /\ client' = [client EXCEPT ![envelope.peer].first =
                             IF @ = <<>> THEN <<state>> ELSE @]
    /\ server' = [server EXCEPT !.pc = "send"]
    /\ UNCHANGED <<data, calls, wire>>

\* line 76: send_json(response); the REP socket sends the reply to the peer
\* whose request it has received
ServeSend ==
    /\ server.pc = "send"
    /\ server' = [server EXCEPT !.pc = "while", !.replied = TRUE,
                                !.socket = "receiving"]
    /\ wire' = [wire EXCEPT !.replies =
                    Append(@, [peer |-> server.request[1].peer, body |-> reply])]
    /\ UNCHANGED <<session, calls, client>>

\* one turn of the loop of Server.run in which a request is there (lines
\* 64-76), step by step
Serve ==
    \/ ServeRecv
    \/ ServeRoute
    \/ ServeSend

\* ChatApp.listen_for_messages of the client c: its reply is received
ClientReceive(c) ==
    /\ client[c].socket = "awaiting"
    /\ \E i \in 1..Len(wire.replies) :
           /\ wire.replies[i].peer = c
           /\ wire' = [wire EXCEPT !.replies =
                        SubSeq(@, 1, i - 1) \o SubSeq(@, i + 1, Len(@))]
    /\ client' = [client EXCEPT ![c].socket = "ready"]
    /\ UNCHANGED <<session, calls, server>>

\* the user of the client c quits (ctrl+q).  The binding has no condition:
\* the running application ends whether it has sent anything or not and
\* whether a request of it is unanswered or not.  Nothing is sent to the
\* server; a request already sent stays queued and is served, and its reply
\* has no receiver
Stop(c) ==
    /\ client[c].socket \in {"ready", "awaiting"}
    /\ client' = [client EXCEPT ![c].socket = "stopped"]
    /\ UNCHANGED <<session, calls, server, wire>>

NextClients ==
    \/ \E c \in Clients : Connect(c)
    \/ \E c \in Clients : ClientSend(c)
    \/ Serve
    \/ \E c \in Clients : ClientReceive(c)
    \/ \E c \in Clients : Stop(c)

SpecClients == InitClients /\ [][NextClients]_vars

(***************************************************************************)
(* Properties.  What they need is stated here from the record set alone,   *)
(* not through the operators above.                                        *)
(***************************************************************************)
Brands == {data[i].marca : i \in 1..Len(data)}

Min2(a, b) == IF a < b THEN a ELSE b

\* s lists, in increasing order, the Min2(n, |S|) least strings of S
IsLeastSorted(s, S, n) ==
    /\ Len(s) = Min2(n, Cardinality(S))
    /\ \A i \in 1..Len(s) : s[i] \in S
    /\ \A i \in 1..Len(s) : \A j \in 1..Len(s) : i < j => StrLess(s[i], s[j])
    /\ \A x \in S : (\A i \in 1..Len(s) : s[i] # x) =>
                        \A i \in 1..Len(s) : StrLess(s[i], x)

\* the record r satisfies every filter present in f
Matches(r, f) ==
    /\ "marca" \in DOMAIN f => IsSubstr(Lower(f["marca"]), Lower(r.marca))
    /\ "modelo" \in DOMAIN f => IsSubstr(Lower(f["modelo"]), Lower(r.modelo))
    /\ ("preco_min" \in DOMAIN f /\ "preco_max" \in DOMAIN f) =>
           FloatLeq(f["preco_min"], r.preco) /\ FloatLeq(r.preco, f["preco_max"])
    /\ "cor" \in DOMAIN f => IsSubstr(Lower(f["cor"]), Lower(r.cor))
    /\ "combustivel" \in DOMAIN f => IsSubstr(Lower(f["combustivel"]), Lower(r.combustivel))
    /\ "transmissao" \in DOMAIN f => IsSubstr(Lower(f["transmissao"]), Lower(r.transmissao))

MatchingRows(f) == {i \in 1..Len(data) : Matches(data[i], f)}

\* res is the first Min2(n, m) of the m matching rows, in table order
IsFirstMatches(res, f, n) ==
    LET M == MatchingRows(f)
    IN  /\ Len(res) = Min2(n, Cardinality(M))
        /\ \A k \in 1..Len(res) :
              \E i \in M : Cardinality({j \in M : j <= i}) = k /\ res[k] = data[i]

AllKeys == {FilterKeys[i] : i \in 1..Len(FilterKeys)}

\* the last step was a process_message that completed the sixth slot and searched
Searched ==
    /\ last.op = "process_message"
    /\ last.from = "AWAITING_TRANSMISSAO"
    /\ DOMAIN last.searched = AllKeys

SearchedEmpty == Searched /\ MatchingRows(last.searched) = {}

SearchedFound == Searched /\ MatchingRows(last.searched) # {}

WelcomeMessage == "Que legal! Vou te ajudar a encontrar o carro ideal. Qual marca você prefere?"

\* no brand that sorts before Toyota is contained in the utterance "Toyota"
ToyotaUnshadowed ==
    \A b \in Brands : StrLess(b, Toyota) => ~IsSubstr(Lower(b), Lower(Toyota))

ToyotaSent == last.op = "process_message" /\ last.message = Toyota

ToyotaModels ==
    {data[i].modelo : i \in {j \in 1..Len(data) : IsSubstr(Lower(Toyota), Lower(data[j].marca))}}

\* C1 (as stated): from a fresh session in Init, the single utterance
\* "Toyota", a brand of the record set, leaves the session in AwaitingModel
\* with filters = {marca: "Toyota"} and a reply with the model suggestions.
C1_Original ==
    (ToyotaSent /\ last.from = "INIT" /\ last.before = EmptyDict /\ Toyota \in Brands)
        => /\ state = "AWAITING_MODEL"
           /\ DOMAIN filters = {"marca"}
           /\ filters["marca"] = Toyota

\* C1 (amended): from a fresh session in Init the utterance "Toyota" is
\* answered by the welcome prompt and leaves the session in AwaitingBrand with
\* empty filters; sent in AwaitingBrand, with "Toyota" a brand of the record
\* set and no brand sorting before it contained in it, it leaves the session
\* in AwaitingModel with filters = {marca: "Toyota"}, and the reply suggests
\* the first five models of Toyota.
C1_ToyotaTakesTwoUtterances ==
    /\ (ToyotaSent /\ last.from = "INIT")
          => /\ state = "AWAITING_BRAND"
             /\ filters = EmptyDict
             /\ reply.message = WelcomeMessage
    /\ (ToyotaSent /\ last.from = "AWAITING_BRAND" /\ Toyota \in Brands /\ ToyotaUnshadowed)
          => /\ state = "AWAITING_MODEL"
             /\ DOMAIN filters = {"marca"}
             /\ filters["marca"] = Toyota
             /\ IsLeastSorted(reply.suggestions, ToyotaModels, NumModelSuggestions)

C1_Witness ==
    /\ ToyotaSent /\ last.from = "AWAITING_BRAND" /\ Toyota \in Brands /\ ToyotaUnshadowed
    /\ state = "AWAITING_MODEL"
    /\ Len(reply.suggestions) > 1

\* C2: in Init, process_message on any text extracts nothing: the filters stay
\* empty, the state becomes AwaitingBrand and the suggestions are the first
\* min(5, n) of the n distinct brands in sorted order.
C2_InitWelcomes ==
    (last.op = "process_message" /\ last.from = "INIT")
        => /\ filters = EmptyDict
           /\ last.before = EmptyDict
           /\ state = "AWAITING_BRAND"
           /\ IsLeastSorted(reply.suggestions, Brands, NumBrandSuggestions)

C2_Witness ==
    /\ last.op = "process_message" /\ last.from = "INIT"
    /\ Cardinality(Brands) > NumBrandSuggestions
    /\ Len(reply.suggestions) = NumBrandSuggestions

\* C3: a reset directive in any state and with any filters leaves the session
\* with state = Init and empty filters.
C3_ResetClears ==
    last.op = "do_reset" => state = "INIT" /\ filters = EmptyDict

C3_Witness ==
    /\ last.op = "do_reset"
    /\ last.from = "AWAITING_TRANSMISSAO"
    /\ DOMAIN last.before # {}
    /\ state = "INIT"

\* C4: no step changes the value of a filter key that is present before and
\* after it: a slot keeps its value until the filters are cleared as a whole.
C4_SlotsNeverOverwritten ==
    [][\A k \in DOMAIN filters \cap DOMAIN filters' : filters'[k] = filters[k]]_vars

C4_Witness ==
    /\ last.op = "process_message"
    /\ DOMAIN last.before # {}
    /\ DOMAIN filters # DOMAIN last.before
    /\ \A k \in DOMAIN last.before : k \in DOMAIN filters /\ filters[k] = last.before[k]

\* C5: when the six slots are complete and the search matches no record, the
\* reply has reset = true and neither a 'results' nor a 'complete' key.
C5_EmptyResultReply ==
    SearchedEmpty
        => /\ "reset" \in DOMAIN reply /\ reply["reset"] = TRUE
           /\ "results" \notin DOMAIN reply
           /\ "complete" \notin DOMAIN reply

C5_Witness == SearchedEmpty /\ "reset" \in DOMAIN reply

\* C6: when the six slots are complete and the search matches a record, the
\* reply has complete = true, no 'reset' key and as 'results' the first
\* min(20, m) of the m records matching the accumulated filters, 1 to 20 of them.
C6_FoundResultReply ==
    SearchedFound
        => /\ "complete" \in DOMAIN reply /\ reply["complete"] = TRUE
           /\ "reset" \notin DOMAIN reply
           /\ "results" \in DOMAIN reply
           /\ Len(reply["results"]) >= 1 /\ Len(reply["results"]) <= MaxResults
           /\ \A k \in DOMAIN last.before : last.searched[k] = last.before[k]
           /\ IsFirstMatches(reply["results"], last.searched, MaxResults)

C6_Witness ==
    /\ SearchedFound
    /\ Cardinality(MatchingRows(last.searched)) > MaxResults
    /\ Len(reply["results"]) = MaxResults

\* C7: after a search with at least one result the session is in AwaitingBrand
\* with empty filters, and the next utterance is handled as a brand input:
\* the welcome prompt is not sent again.
C7_AfterFoundAwaitsBrand ==
    [][/\ SearchedFound' => (state' = "AWAITING_BRAND" /\ filters' = EmptyDict)
       /\ (SearchedFound /\ last'.op = "process_message")
             => /\ last'.from = "AWAITING_BRAND"
                /\ last'.branch \in {"no_match", "not_found", "advance"}
                /\ reply'.message # WelcomeMessage]_vars

C7_Witness ==
    /\ last.op = "process_message" /\ last.from = "AWAITING_BRAND"
    /\ last.after = "found"
    /\ last.before = EmptyDict
    /\ last.branch = "advance"

\* C8 (as stated): after a search with an empty result the filters are cleared
\* and the state is Init, whereas after a non-empty result it is AwaitingBrand.
C8_Original ==
    /\ SearchedEmpty => (state = "INIT" /\ filters = EmptyDict)
    /\ SearchedFound => state = "AWAITING_BRAND"

\* C8 (amended): after a search with an empty result the filters are cleared
\* and the state is AwaitingBrand, the same as after a non-empty result.
C8_AfterSearchAwaitsBrand ==
    /\ SearchedEmpty => (state = "AWAITING_BRAND" /\ filters = EmptyDict)
    /\ SearchedFound => state = "AWAITING_BRAND"

C8_Witness == SearchedEmpty /\ state = "AWAITING_BRAND" /\ data = DataBig

\* the extractor of the slot that state st awaits finds nothing in the message
NoMatchIn(st, fl, message) ==
    CASE st = "AWAITING_BRAND" -> extract_brand(normalize_text(message)) = None
      [] st = "AWAITING_MODEL" -> extract_model(normalize_text(message), fl["marca"]) = None
      [] st = "AWAITING_PRECO" -> extract_price_range(normalize_text(message)) = None
      [] st = "AWAITING_COR" -> extract_color(normalize_text(message)) = None
      [] st = "AWAITING_COMBUSTIVEL" -> extract_fuel(normalize_text(message)) = None
      [] st = "AWAITING_TRANSMISSAO" -> extract_transmission(normalize_text(message)) = None
      [] OTHER -> FALSE

\* C9: in every Awaiting state, an utterance in which the extractor of the
\* active slot finds nothing leaves the state and the filters as they were,
\* and the reply suggests what was suggested when the state was entered from
\* the slot before it.
C9_NoMatchReprompts ==
    [][(last'.op = "process_message" /\ NoMatchIn(state, filters, last'.message))
          => /\ state' = state
             /\ filters' = filters
             /\ "suggestions" \in DOMAIN reply'
             /\ last.prompted # None => reply'.suggestions = last.prompted]_vars

C9_Witness ==
    /\ last.op = "process_message" /\ last.branch = "no_match"
    /\ last.from = "AWAITING_COR"
    /\ last.prompted # None
    /\ reply.suggestions = last.prompted

\* C10: search_cars returns the first min(20, m) of the m matching records in
\* the order of the record set: at most 20, none skipped for a later one.
C10_FirstTwentyInOrder ==
    sresult # None => IsFirstMatches(sresult, sfilters, MaxResults)

C10_Witness ==
    /\ sresult # None
    /\ Cardinality(MatchingRows(sfilters)) > MaxResults
    /\ \E i \in 1..Len(data) : \E j \in MatchingRows(sfilters) :
          i < j /\ i \notin MatchingRows(sfilters)

\* C11: every record search_cars returns satisfies all the filters present
\* (each text filter is contained, letter case ignored, in the record's
\* field; preco_min <= price <= preco_max when both are present), and a
\* record that satisfies them is left out only by the cap of 20.
C11_ResultsSatisfyFilters ==
    sresult # None =>
        /\ \A k \in 1..Len(sresult) : Matches(sresult[k], sfilters)
        /\ Len(sresult) < MaxResults =>
               \A i \in MatchingRows(sfilters) :
                   \E k \in 1..Len(sresult) : sresult[k] = data[i]

\* the number a numeral of PriceNumerals writes, '.' separating thousands and
\* ',' the decimals
NumeralValue(n) ==
    CASE n = N7 -> Dec(7, 0)
      [] n = N10 -> Dec(10, 0)
      [] n = N4990 -> Dec(4990, 2)
      [] n = N161 -> Dec(161, 1)
      [] n = N30000 -> Dec(30000, 0)
      [] n = N50000 -> Dec(50000, 0)
      [] n = N1000000 -> Dec(1000000, 0)

\* C12: extract_price_range("até 50.000") = (0.0, 50000.0), and for every
\* numeral N.000 the text "até N.000" gives (0, N*1000): the '.' of the
\* numeral is removed before it is parsed.
C12_UpperBoundThousands ==
    \A n \in {N30000, N50000} :
        (argument = WAte \o n /\ returned # <<>>) =>
            /\ returned[1] # None
            /\ returned[1] = <<Dec(0, 0), NumeralValue(n)>>

\* C13: for the range form "entre A e B" extract_price_range returns (A, B),
\* both numerals read with their thousands separators removed; "entre 30.000
\* e 60.000" style texts give the two numbers.
C13_RangeBothBounds ==
    \A a \in PriceNumerals : \A b \in PriceNumerals :
        (argument = WEntre \o a \o WE \o b /\ returned # <<>>) =>
            /\ returned[1] # None
            /\ returned[1] = <<NumeralValue(a), NumeralValue(b)>>

\* C14: extract_price_range("acima de 10 mil") = (10000.0, +infinity): the
\* number before "mil" is multiplied by 1000 and the upper bound is unbounded.
C14_LowerBoundMil ==
    (argument = WAcimaDe \o N10 \o WMil /\ returned # <<>>) =>
        /\ returned[1] # None
        /\ returned[1] = <<Dec(10000, 0), Inf>>

\* the letter a character is once its case and its diacritic are set aside
BaseLetter(c) ==
    CASE c \in {"A", "a", "Á", "á", "ã"} -> "a"
      [] c \in {"C", "c", "ç"} -> "c"
      [] OTHER -> c

\* the text without the blanks around it
Trimmed(s) ==
    LET keep == {i \in 1..Len(s) : s[i] # " "}
    IN  IF keep = {} THEN <<>>
        ELSE SubSeq(s, Least(keep), Len(s) + 1 - Least({Len(s) + 1 - i : i \in keep}))

\* x and y differ only in letter case, diacritics or surrounding whitespace
SameButCase(x, y) ==
    LET Same(a, b) ==
            /\ Len(a) = Len(b)
            /\ \A i \in 1..Len(a) : BaseLetter(a[i]) = BaseLetter(b[i])
    IN  Same(Trimmed(x), Trimmed(y))

\* C15: normalize_text is idempotent, normalize_text(normalize_text(x)) =
\* normalize_text(x) for every text x, and texts that differ only in letter
\* case, diacritics or surrounding whitespace have the same normal form.
C15_NormalizeIdempotent ==
    /\ Len(returned) = 2 => returned[2] = returned[1]
    /\ Len(returned) >= 1 =>
           \A y \in NormalizeTexts :
               SameButCase(argument, y) => normalize_text(y) = returned[1]

\* run has left its loop: it is in _cleanup_resources or has returned
ExitPcs == {"close", "term", "returned"}

\* the request is a normal utterance, not a reset directive
IsUtterance(request) ==
    ~("action" \in DOMAIN request /\ request["action"] = JsonStr(KwReset))

\* the server holds an utterance it has received and not answered
Unanswered ==
    /\ server.request # <<>>
    /\ IsUtterance(server.request[1])
    /\ ~server.replied

\* C16: every normal-utterance request the server receives, whatever its
\* 'message' holds and whatever the state of the session, is answered with one
\* reply before the server receives again and before its loop ends.
C16_EveryUtteranceAnswered ==
    server.pc \in ExitPcs \cup {"recv"} => ~Unanswered

\* C17: after a reset directive the alternation of the socket is intact: when
\* the server comes to receive, its socket can receive, and the reset does not
\* end the loop of a server that was not told to shut down.
C17_ResetKeepsAlternation ==
    /\ server.pc = "recv" => server.socket = "receiving"
    /\ (last.op = "do_reset" /\ ~server.shutdown) => server.pc \notin ExitPcs

\* C18: the requests the client puts on the wire and the replies it receives
\* strictly alternate, starting with a request: no second request is sent
\* while the reply to the first has not been received.
C18_ClientAlternates ==
    /\ \A i \in 1..Len(client.log) :
           client.log[i] = (IF i % 2 = 1 THEN "send" ELSE "recv")
    /\ Len(wire.requests) <= 1

C18_Witness ==
    /\ client.errors = 1
    /\ Len(client.log) >= 3
    /\ client.socket = "awaiting"

\* the server has no request to handle
Idle ==
    /\ server.pc \in {"while", "recv", "again"}
    /\ wire.requests = <<>>

\* the socket is closed and the context terminated
Released ==
    /\ server.socket = "closed"
    /\ server.context = "terminated"

\* C19: once the shutdown flag is set while the server is idle, the server
\* does not stay in receive: it leaves the loop and reaches the state where
\* the socket and the context have been released.
C19_IdleShutdownReleases ==
    (server.shutdown /\ Idle) ~> Released

C19_Witness ==
    /\ Released
    /\ server.exit = "break"
    /\ server.signalled \in {"while", "recv", "again"}

\* C20: a request received before the shutdown flag was set is still answered
\* before the loop exits, and on every exit path the socket is closed first
\* and the context terminated second, each exactly once, before run returns.
C20_ReplyThenCloseThenTerm ==
    /\ (server.signalled \in {"route", "send"} /\ server.pc \in ExitPcs) => ~Unanswered
    /\ server.context = "terminated" => server.socket = "closed"
    /\ server.closes <= 1 /\ server.terms <= 1
    /\ server.pc = "returned" => (server.closes = 1 /\ server.terms = 1)

\* C21: on a transport fault in either direction (a failed send in
\* send_message, a failed receive in listen_for_messages) the listening loop
\* has terminated, and no reply is rendered after the fault.
C21_FaultEndsListening ==
    /\ client.errors = 1 => ~client.listening
    /\ ~client.late

\* the chain of the states, in the order the slots are asked
Chain ==
    <<"INIT", "AWAITING_BRAND", "AWAITING_MODEL", "AWAITING_PRECO", "AWAITING_COR",
      "AWAITING_COMBUSTIVEL", "AWAITING_TRANSMISSAO">>

\* st2 is the state right after st1 in the chain
NextInChain(st1, st2) ==
    \E i \in 1..(Len(Chain) - 1) : Chain[i] = st1 /\ Chain[i + 1] = st2

\* C22: every change of state made by process_message is a self-loop (the
\* extraction failed), a step to the immediate successor in the chain, or the
\* step from AWAITING_TRANSMISSAO to the reset target after a search: no slot
\* is skipped and none is revisited.
C22_LinearChain ==
    last.op = "process_message" =>
        \/ last.branch \in {"no_match", "not_found"} /\ state = last.from
        \/ last.branch \in {"welcome", "advance"} /\ NextInChain(last.from, state)
        \/ /\ last.branch = "search"
           /\ last.from = "AWAITING_TRANSMISSAO"
           /\ state = "AWAITING_BRAND"

C22_Witness ==
    /\ last.op = "process_message"
    /\ last.branch = "advance"
    /\ last.from = "AWAITING_PRECO"
    /\ state = "AWAITING_COR"
    /\ "modelo" \in DOMAIN filters

\* C23: in AWAITING_PRECO an utterance of the upper-bound form, the system's
\* own suggestion "Até 40.000" included, is accepted: the range (0, 40000) is
\* recorded in the filters and the state advances to AWAITING_COR.
C23_UpperBoundAccepted ==
    (last.op = "process_message" /\ last.from = "AWAITING_PRECO" /\ last.message = UAte) =>
        /\ state = "AWAITING_COR"
        /\ "preco_min" \in DOMAIN filters /\ filters["preco_min"] = Dec(0, 0)
        /\ "preco_max" \in DOMAIN filters /\ filters["preco_max"] = Dec(40000, 0)

\* v * 1000, for a float v
Thousandfold(v) == Dec(v.n * 1000, v.k)

\* C24: for a number N followed by "mil" or "k", extract_price_range returns
\* (0, N*1000) when the text holds the marker "até" or "máximo" and
\* (N*1000, +infinity) when it holds none.
C24_ThousandsDirection ==
    \A w \in {<<>>, WCurrency, WAte, WMaximo} :
        \A n \in {N7, N10, N4990} : \A th \in {WMil, WK} :
            (argument = w \o n \o th /\ returned # <<>>) =>
                /\ returned[1] # None
                /\ returned[1] =
                       IF w \in {WAte, WMaximo}
                       THEN <<Dec(0, 0), Thousandfold(NumeralValue(n))>>
                       ELSE <<Thousandfold(NumeralValue(n)), Inf>>

\* the row in which the value v of the column col first appears
FirstRow(col, v) ==
    CHOOSE i \in 1..Len(data) :
        data[i][col] = v /\ \A j \in 1..(i - 1) : data[j][col] # v

\* the vocabulary of the slot of the call r: the values of the column, for
\* the model those of the rows of the brand passed
Vocabulary(r) ==
    IF r.slot = "modelo"
    THEN {data[i].modelo : i \in {j \in 1..Len(data) : data[j].marca = r.brand}}
    ELSE {data[i][r.slot] : i \in 1..Len(data)}

\* the form in which the slot compares a vocabulary value with the text
ComparisonKey(slot, v) ==
    IF slot \in {"combustivel", "transmissao"} THEN Unidecode(Strip(Lower(v)))
    ELSE Lower(v)

\* the values of the vocabulary found in the normalized text of the call r
FoundIn(r) ==
    {v \in Vocabulary(r) :
        IsSubstr(ComparisonKey(r.slot, v), Unidecode(Strip(Lower(argument))))}

AlphabeticalSlots == {"marca", "modelo"}

\* C25 as stated: when several vocabulary values are contained in the input,
\* every extractor returns the one whose first row in the record set comes
\* first (dataset order).
C25_Original ==
    returned # <<>> =>
        LET Holds(r) ==
                /\ FoundIn(r) # {} => r.value # None
                /\ r.value # None =>
                       \A u \in FoundIn(r) :
                           u # r.value =>
                               FirstRow(r.slot, r.value) < FirstRow(r.slot, u)
        IN  Holds(returned[1])

\* C25, amended: when several vocabulary values are contained in the input,
\* the extractor returns the first of them in the order of its vocabulary,
\* which is the alphabetical order for the brand and the model (the lists
\* are sorted) and the order of first appearance in the record set for the
\* colour, the fuel and the transmission; the longest match is not preferred.
C25_FirstInVocabularyOrder ==
    returned # <<>> =>
        LET Holds(r) ==
                /\ FoundIn(r) # {} => r.value # None
                /\ r.value # None =>
                       \A u \in FoundIn(r) :
                           u # r.value =>
                               IF r.slot \in AlphabeticalSlots
                               THEN StrLess(r.value, u)
                               ELSE FirstRow(r.slot, r.value) < FirstRow(r.slot, u)
        IN  Holds(returned[1])

C25_Witness ==
    /\ returned # <<>>
    /\ returned[1].slot = "marca"
    /\ data = DataSmall
    /\ FoundIn(returned[1]) = {Toyota, Honda}
    /\ returned[1].value = Honda

\* C26: for each of the five slots, an utterance equal to a value of the
\* slot's vocabulary, accented or not, is recognized by the slot's extractor:
\* it returns a candidate, never None.
C26_VocabularyValueRecognized ==
    returned # <<>> =>
        LET Holds(r) == argument \in Vocabulary(r) => r.value # None
        IN  Holds(returned[1])

\* the models of the records whose brand is brand
ModelsOf(brand) == {data[i].modelo : i \in {j \in 1..Len(data) : data[j].marca = brand}}

\* C27: in AWAITING_MODEL the model suggested or extracted is a model of a
\* record of the chosen brand: the suggestions that come with the brand's
\* acceptance, and the model stored in the filters, are never models that
\* occur only under another brand, even one whose name contains the chosen
\* brand.
C27_ModelsOfChosenBrandOnly ==
    /\ (last.op = "process_message" /\ state = "AWAITING_MODEL") =>
           \A i \in 1..Len(reply.suggestions) :
               reply.suggestions[i] \in ModelsOf(filters["marca"])
    /\ "modelo" \in DOMAIN filters => filters["modelo"] \in ModelsOf(filters["marca"])

\* C28: every client has a session of its own that starts in INIT: the first
\* utterance of a client is handled in state INIT, whether it connects after
\* another client stopped in the middle of its dialogue or while another
\* client is in the middle of one.
C28_OwnSessionPerClient ==
    \A c \in Clients : client[c].first \in {<<>>, <<"INIT">>}

\* C29: search_cars, and so every process_message and do_reset call, leaves
\* the loaded record set as it was: the same records in the same order.
C29_RecordSetUnchanged ==
    [][data' = data]_vars

C29_Witness ==
    /\ last.branch = "search"
    /\ last.results # <<>>
    /\ Len(last.results) < Len(data)
    /\ data = DataSmall

\* C30: after any sequence of process_message and do_reset calls the state
\* is one of the seven states of the chain; WELCOME and READY_TO_SEARCH are
\* never reached, so the fallback reply "Como posso te ajudar?" is never
\* produced.
C30_StateInChain ==
    /\ \E i \in 1..Len(Chain) : state = Chain[i]
    /\ last.branch # "fallback"
    /\ "message" \in DOMAIN reply => reply.message # "Como posso te ajudar?"

C30_Witness ==
    /\ last.op = "do_reset"
    /\ last.from = "AWAITING_COMBUSTIVEL"
    /\ state = "INIT"
    /\ "message" \in DOMAIN reply

\* the filter keys recorded once the session is in the state st
KeysIn(st) ==
    CASE st \in {"INIT", "AWAITING_BRAND"} -> {}
      [] st = "AWAITING_MODEL" -> {"marca"}
      [] st = "AWAITING_PRECO" -> {"marca", "modelo"}
      [] st = "AWAITING_COR" -> {"marca", "modelo", "preco_min", "preco_max"}
      [] st = "AWAITING_COMBUSTIVEL" ->
             {"marca", "modelo", "preco_min", "preco_max", "cor"}
      [] st = "AWAITING_TRANSMISSAO" ->
             {"marca", "modelo", "preco_min", "preco_max", "cor", "combustivel"}

\* C31: the set of filter keys is determined by the state: empty in INIT and
\* AWAITING_BRAND, then growing by marca, modelo, preco_min with preco_max,
\* cor and combustivel; search_cars is only called with all seven keys.
C31_KeysFollowState ==
    /\ DOMAIN filters = KeysIn(state)
    /\ last.branch = "search" => DOMAIN last.searched = AllKeys

C31_Witness ==
    /\ state = "AWAITING_TRANSMISSAO"
    /\ DOMAIN filters = AllKeys \ {"transmissao"}
    /\ last.op = "process_message"
    /\ last.branch = "advance"

\* C32: whenever the filters hold a price range, its lower bound is less than
\* or equal to its upper bound: a range utterance whose first number exceeds
\* its second is not recorded.
C32_PriceRangeOrdered ==
    "preco_min" \in DOMAIN filters =>
        FloatLeq(filters["preco_min"], filters["preco_max"])

====
